---- MODULE Spec2Model ----
(***************************************************************************)
(* Model of the routing / campaign / tenant / cache core of the agent      *)
(* marketplace:                                                            *)
(*   src/core/bus.ts                       MessageBus  (the Router)        *)
(*   src/agents/campaign-manager/index.ts  CampaignManagerAgent (Runs)     *)
(*   src/core/tenant.ts                    TenantStore (admission)         *)
(*   src/core/cache.ts                     ResponseCache                   *)
(* Each component has its own specification (SpecBus, SpecRun, SpecTenant, *)
(* SpecCache) over the shared variable list; the variables of the other    *)
(* components stay at their initial value.                                 *)
(***************************************************************************)
EXTENDS Integers, Sequences, FiniteSets, TLC

VARIABLES
  \* ---- MessageBus (src/core/bus.ts)
  agents,        \* Map<string, BaseAgent>, as the sequence of its keys in insertion order
  middlewares,   \* Middleware[], each element the behaviour of that interceptor
  bcast,         \* the broadcast() call in flight, suspended at an await (or NoBroadcast)
  lastSend       \* observation of the last send() that finished (or NoSend)

VARIABLES
  \* ---- CampaignManagerAgent (src/agents/campaign-manager/index.ts)
  campaign,      \* the Campaign in this.campaigns (or NoCampaign)
  passes,        \* the runCampaign() calls in flight, each suspended at an await
  calls,         \* number of run-campaign / pause-campaign requests handled so far
  depsAtStart,   \* per step: the statuses its dependencies had when it was last marked running
  sentInput      \* per step: the input of the task message last sent for it (or EmptyInput)

VARIABLES
  \* ---- TenantStore (src/core/tenant.ts)
  tenants,       \* Map<string, Tenant>: per tenant id its record (or NoTenant)
  clock,         \* the UTC date new Date() reports, as <<month, day of the month>>
  lastTrack,     \* observation of the last trackUsage() call (or NoTrack)
  admitted,      \* per tenant: admission checks evaluated / allowed on the clock's day, allowed in
                 \* its month, and whether the plan is the one the day began with
  tracks,        \* number of trackUsage() calls so far
  persisting,    \* number of trackUsage() calls suspended at `await this.saveTenant(tenant)`
  lastQuery,     \* observation of the last call that only reads the store (or NoQuery)
  rendered       \* observation of the last getTenantContext() call (or NoContext)

VARIABLES
  \* ---- ResponseCache (src/core/cache.ts)
  cache,         \* Map<string, CacheEntry>, as the sequence of its entries in insertion order
  now,           \* Date.now(), in units of 30 minutes
  lastOp         \* observation of the last cache operation (or NoOp)

busVars == <<agents, middlewares, bcast, lastSend>>
runVars == <<campaign, passes, calls, depsAtStart, sentInput>>
tenantVars == <<tenants, clock, lastTrack, admitted, tracks, persisting, lastQuery, rendered>>
cacheVars == <<cache, now, lastOp>>

vars == <<busVars, runVars, tenantVars, cacheVars>>

notBus == <<runVars, tenantVars, cacheVars>>
notRun == <<busVars, tenantVars, cacheVars>>
notTenant == <<busVars, runVars, cacheVars>>
notCache == <<busVars, runVars, tenantVars>>

\* ------------------------------------------------------------------------
\*  Small helpers on sequences
\* ------------------------------------------------------------------------

Range(s) == {s[i] : i \in 1..Len(s)}

RemoveAt(s, k) == [i \in 1..(Len(s) - 1) |-> IF i < k THEN s[i] ELSE s[i + 1]]

IndexOf(s, x) == CHOOSE i \in 1..Len(s) : s[i] = x

Count(s, x) == Cardinality({i \in 1..Len(s) : s[i] = x})

\* ========================================================================
\*  MessageBus
\* ========================================================================

\* Bounds of the bus model
MaxMiddlewares == 2
MaxChurn == 1        \* registry changes while one broadcast is in flight

Names == {"w1", "w2"}                  \* agent names that may register
BROADCAST == "*"

\* What one call of agent.handle(message) may do: resolve to a result message,
\* resolve to an error message, reject with an Error object, or reject with a
\* value that has no properties (throw undefined / Promise.reject()).
HandleOutcomes == {"result", "error", "throwError", "throwNullish"}

\* Behaviours of a registered interceptor (message, next) => Promise<Message>:
\*   pass         return await next()
\*   block        return its own message without calling next
\*   throwBefore  throw an Error without calling next
\*   throwAfter   await next(), then throw an Error
\*   recover      try { return await next() } catch { return its own message }
\*   throwNullish throw undefined without calling next
MiddlewareKinds == {"pass", "block", "throwBefore", "throwAfter", "recover", "throwNullish"}

\* Requests: an outside caller's message m1 and agent w1's message m2, to any target
Requests == {[id |-> "m1", from |-> "cli", to |-> t] : t \in Names \cup {BROADCAST}}
              \cup {[id |-> "m2", from |-> "w1", to |-> t] : t \in Names \cup {BROADCAST}}

\* createMessage: id and timestamp of the new message are fresh values that no
\* property reads; the model keeps from, to, type, payload and replyTo.
createMessage(from, to, type, payload, replyTo) ==
  [from |-> from, to |-> to, type |-> type, payload |-> payload, replyTo |-> replyTo]

\* The error code the bus gives for an unknown target (the specification's
\* WORKER_NOT_FOUND under its agent -> worker vocabulary).
WORKER_NOT_FOUND == "AGENT_NOT_FOUND"
EXECUTION_ERROR == "EXECUTION_ERROR"

listAgentNames == agents

ErrorPayload(code, text, retryable) ==
  [code |-> code, message |-> text, retryable |-> retryable]

\* mutant of NotFoundReply: the reply marked retryable and not linked to the request
NotFoundReplyRetryable(message) ==
  createMessage("bus", message.from, "error",
                ErrorPayload(WORKER_NOT_FOUND, listAgentNames, TRUE), "none")

\* bus.ts 46-56: the message synthesized when message.to is not registered
NotFoundReply(message) ==
  createMessage("bus", message.from, "error",
                ErrorPayload(WORKER_NOT_FOUND, listAgentNames, FALSE), message.id)

\* bus.ts 73-83: the message built in the catch block from err.message
ExecutionErrorReply(message) ==
  createMessage(message.to, message.from, "error",
                ErrorPayload(EXECUTION_ERROR, "err.message", TRUE), message.id)

\* An agent's own answers
AgentResult(name, message) ==
  createMessage(name, message.from, "result", [success |-> TRUE, output |-> name], message.id)

AgentError(name, message) ==
  createMessage(name, message.from, "error",
                ErrorPayload("AGENT_ERROR", "failed", TRUE), message.id)

InterceptorReply(message) ==
  createMessage("middleware", message.from, "result",
                [success |-> TRUE, output |-> "intercepted"], message.id)

\* Outcome of an async call: resolved with a message, rejected with an Error,
\* or rejected with a nullish value.  entered: the interceptors entered, in
\* order; handled: the agents whose handle was called, in order.
Resolved(msg, entered, handled) ==
  [how |-> "resolved", msg |-> msg, entered |-> entered, handled |-> handled]

Rejected(how, entered, handled) ==
  [how |-> how, msg |-> "none", entered |-> entered, handled |-> handled]

\* bus.ts 60: const execute = async () => agent.handle(message)
execute(message, w) ==
  CASE w = "result"       -> Resolved(AgentResult(message.to, message), <<>>, <<message.to>>)
    [] w = "error"        -> Resolved(AgentError(message.to, message), <<>>, <<message.to>>)
    [] w = "throwError"   -> Rejected("error", <<>>, <<message.to>>)
    [] w = "throwNullish" -> Rejected("nullish", <<>>, <<message.to>>)

\* One interceptor of kind k at position i wrapped around the handler whose
\* outcome (if it is called) is inner.
Interceptor(k, i, message, inner) ==
  LET into == <<i>> \o inner.entered IN
  CASE k = "pass"         -> [inner EXCEPT !.entered = into]
    [] k = "block"        -> Resolved(InterceptorReply(message), <<i>>, <<>>)
    [] k = "throwBefore"  -> Rejected("error", <<i>>, <<>>)
    [] k = "throwNullish" -> Rejected("nullish", <<i>>, <<>>)
    [] k = "throwAfter"   -> IF inner.how = "resolved"
                             THEN Rejected("error", into, inner.handled)
                             ELSE [inner EXCEPT !.entered = into]
    [] k = "recover"      -> IF inner.how = "resolved"
                             THEN [inner EXCEPT !.entered = into]
                             ELSE Resolved(InterceptorReply(message), into, inner.handled)

\* mutant of handler: the chain composed in the opposite order, the last
\* registered interceptor outermost
RECURSIVE handlerLastFirst(_, _, _)
handlerLastFirst(i, message, w) ==
  IF i > Len(middlewares)
  THEN execute(message, w)
  ELSE LET k == Len(middlewares) + 1 - i IN
       Interceptor(middlewares[k], k, message, handlerLastFirst(i + 1, message, w))

\* bus.ts 61-66: handler = mw_1(message, mw_2(message, ... execute)); the loop
\* walks the reversed list, so the first registered interceptor is outermost.
RECURSIVE handler(_, _, _)
handler(i, message, w) ==
  IF i > Len(middlewares)
  THEN execute(message, w)
  ELSE Interceptor(middlewares[i], i, message, handler(i + 1, message, w))

\* What the caller of send() observes (lastSend); the observation is dropped
\* when the next bus operation starts.
\*   how      "returned" (the promise resolved with msg) or "raised" (it rejected)
\*   failure  how the awaited handler / handle call failed, "none" if it did not
\*   entered  interceptors entered, handled: agents whose handle was called
\*   bc       for a broadcast: the registry when it was called, the registry
\*            changes made while it ran, and the entries collected
Returned(req, msg, o, bc) ==
  [req |-> req, how |-> "returned", msg |-> msg, failure |-> o.how,
   entered |-> o.entered, handled |-> o.handled, bc |-> bc]

Raised(req, o, bc) ==
  [req |-> req, how |-> "raised", msg |-> "none", failure |-> o.how,
   entered |-> o.entered, handled |-> o.handled, bc |-> bc]

NoSend == [how |-> "none"]

NoCall == [how |-> "none", entered |-> <<>>, handled |-> <<>>]

\* bus.ts 68-86: try { return await handler() } catch (err) { ... err.message ... }
\* Reading err.message of a nullish err raises a TypeError inside the catch
\* block, which leaves send() as a rejection.
Boundary(message, o) ==
  CASE o.how = "resolved" -> Returned(message, o.msg, [o EXCEPT !.how = "none"], "none")
    [] o.how = "error"    -> Returned(message, ExecutionErrorReply(message), o, "none")
    [] o.how = "nullish"  -> Raised(message, o, "none")

NoBroadcast == [active |-> FALSE]

\* bus.ts 19-22
register(name) ==
  /\ name \in Names
  /\ agents' = IF name \in Range(agents) THEN agents ELSE Append(agents, name)
  /\ bcast.active /\ name \notin Range(agents) => bcast.churn < MaxChurn
  /\ bcast' = IF bcast.active /\ name \notin Range(agents)
              THEN [bcast EXCEPT !.churn = @ + 1] ELSE bcast
  /\ lastSend' = NoSend
  /\ UNCHANGED middlewares
  /\ UNCHANGED notBus

\* bus.ts 25-28: Map.delete; a live iterator that already passed the entry
\* moves back by one
unregister(name) ==
  /\ name \in Range(agents)
  /\ bcast.active => bcast.churn < MaxChurn
  /\ LET k == IndexOf(agents, name) IN
       /\ agents' = RemoveAt(agents, k)
       /\ bcast' = IF bcast.active
                   THEN [bcast EXCEPT !.churn = @ + 1,
                                      !.pos = IF k <= bcast.pos THEN @ - 1 ELSE @]
                   ELSE bcast
  /\ lastSend' = NoSend
  /\ UNCHANGED middlewares
  /\ UNCHANGED notBus

\* bus.ts 31-33
use(k) ==
  /\ Len(middlewares) < MaxMiddlewares
  /\ k \in MiddlewareKinds
  /\ middlewares' = Append(middlewares, k)
  /\ lastSend' = NoSend
  /\ UNCHANGED <<agents, bcast>>
  /\ UNCHANGED notBus

\* bus.ts 36-57: send to a name that is not registered
sendNotFound(message) ==
  /\ ~bcast.active
  /\ message.to # BROADCAST
  /\ message.to \notin Range(agents)
  /\ lastSend' = Returned(message, NotFoundReply(message), NoCall, "none")
  /\ UNCHANGED <<agents, middlewares, bcast>>
  /\ UNCHANGED notBus

\* bus.ts 36-87: send to a registered agent through the interceptor chain
sendSingle(message, w) ==
  /\ ~bcast.active
  /\ message.to # BROADCAST
  /\ message.to \in Range(agents)
  /\ lastSend' = Boundary(message, handler(1, message, w))
  /\ UNCHANGED <<agents, middlewares, bcast>>
  /\ UNCHANGED notBus

\* bus.ts 40-42, 90-92: send with to = "*" enters broadcast()
broadcastStart(message) ==
  /\ ~bcast.active
  /\ message.to = BROADCAST
  /\ bcast' = [active |-> TRUE, msg |-> message, pos |-> 0, results |-> <<>>,
               handled |-> <<>>, atStart |-> agents, churn |-> 0]
  /\ lastSend' = NoSend
  /\ UNCHANGED <<agents, middlewares>>
  /\ UNCHANGED notBus

\* bus.ts 92-100: one iteration of for (const [name, agent] of this.agents).
\* The catch block reads err.message, so a nullish rejection leaves broadcast()
\* (and send()) as a rejection and the remaining agents are not visited.
broadcastStep(w) ==
  /\ bcast.active
  /\ bcast.pos < Len(agents)
  /\ LET name == agents[bcast.pos + 1]
         called == Append(bcast.handled, name)
         entry(kind) == [agent |-> name, kind |-> kind] IN
       IF name = bcast.msg.from
       THEN /\ bcast' = [bcast EXCEPT !.pos = @ + 1]
            /\ UNCHANGED lastSend
       ELSE IF w = "throwNullish"
       THEN /\ bcast' = NoBroadcast
            /\ lastSend' = Raised(bcast.msg,
                              [how |-> "nullish", entered |-> <<>>, handled |-> called],
                              [atStart |-> bcast.atStart, churn |-> bcast.churn,
                               results |-> bcast.results])
       ELSE /\ bcast' = [bcast EXCEPT !.pos = @ + 1, !.handled = called,
                           !.results = Append(@, entry(IF w = "throwError"
                                                       THEN "error" ELSE "response"))]
            /\ UNCHANGED lastSend
  /\ UNCHANGED <<agents, middlewares>>
  /\ UNCHANGED notBus

\* mutant of broadcastEnd: the broadcast went through the interceptors
broadcastEndThroughChain ==
  /\ bcast.active
  /\ bcast.pos >= Len(agents)
  /\ lastSend' = Returned(bcast.msg,
        createMessage("bus", bcast.msg.from, "result",
                      [results |-> bcast.results], bcast.msg.id),
        [how |-> "none", entered |-> [i \in 1..Len(middlewares) |-> i],
         handled |-> bcast.handled],
        [atStart |-> bcast.atStart, churn |-> bcast.churn, results |-> bcast.results])
  /\ bcast' = NoBroadcast
  /\ UNCHANGED <<agents, middlewares>>
  /\ UNCHANGED notBus

\* bus.ts 101: the aggregate result
broadcastEnd ==
  /\ bcast.active
  /\ bcast.pos >= Len(agents)
  /\ lastSend' = Returned(bcast.msg,
        createMessage("bus", bcast.msg.from, "result",
                      [results |-> bcast.results], bcast.msg.id),
        [how |-> "none", entered |-> <<>>, handled |-> bcast.handled],
        [atStart |-> bcast.atStart, churn |-> bcast.churn, results |-> bcast.results])
  /\ bcast' = NoBroadcast
  /\ UNCHANGED <<agents, middlewares>>
  /\ UNCHANGED notBus



InitBus ==
  /\ agents = <<>>
  /\ middlewares = <<>>
  /\ bcast = NoBroadcast
  /\ lastSend = NoSend

NextBus ==
  \/ \E name \in Names : register(name)
  \/ \E name \in Names : unregister(name)
  \/ \E k \in MiddlewareKinds : use(k)
  \/ \E message \in Requests : sendNotFound(message)
  \/ \E message \in Requests, w \in HandleOutcomes : sendSingle(message, w)
  \/ \E message \in Requests : broadcastStart(message)
  \/ \E w \in HandleOutcomes : broadcastStep(w)
  \/ broadcastEnd

\* ========================================================================
\*  CampaignManagerAgent: Runs (campaigns) and their steps
\* ========================================================================

\* runCampaign() calls that may be in flight together: two slots
Passes == {1, 2}

\* Bounds of the campaign model
MaxRuns == 2         \* run-campaign requests handled
MaxPauses == 1       \* pause-campaign requests handled

\* Strategy templates: per step the agent and dependsOn; the step with id
\* "step_k" is written k.  The first three are the registered strategies, the
\* fourth is the containment scenario [A, B (depends on A), C].
StepSpec(agent, deps) == [agent |-> agent, dependsOn |-> deps]

productLaunchTemplate ==
  << StepSpec("researcher", {}), StepSpec("researcher", {}),
     StepSpec("writer", {1, 2}), StepSpec("writer", {1}),
     StepSpec("editor", {3, 4}), StepSpec("brand-manager", {5}),
     StepSpec("social-writer", {4}), StepSpec("publisher", {6, 7}) >>

contentMarketingTemplate ==
  << StepSpec("writer", {}), StepSpec("writer", {}), StepSpec("researcher", {}),
     StepSpec("writer", {1, 2, 3}), StepSpec("editor", {4}), StepSpec("editor", {5}),
     StepSpec("social-writer", {5}), StepSpec("publisher", {6, 7}) >>

\* mutant of socialBlitzTemplate: the second step waits for the third
socialBlitzForward ==
  << StepSpec("researcher", {}), StepSpec("social-writer", {3}),
     StepSpec("brand-manager", {2}), StepSpec("publisher", {3}) >>

socialBlitzTemplate ==
  << StepSpec("researcher", {}), StepSpec("social-writer", {1}),
     StepSpec("brand-manager", {2}), StepSpec("publisher", {3}) >>

scenarioTemplate ==
  << StepSpec("researcher", {}), StepSpec("writer", {1}), StepSpec("researcher", {}) >>

getStrategy(name) ==
  CASE name = "product-launch"    -> productLaunchTemplate
    [] name = "content-marketing" -> contentMarketingTemplate
    [] name = "social-blitz"      -> socialBlitzTemplate
    [] name = "scenario"          -> scenarioTemplate

\* The strategies campaigns are created from: all of them where requests are
\* handled one after the other, the two short ones where passes overlap
Strategies == {"product-launch", "content-marketing", "social-blitz", "scenario"}
ShortStrategies == {"social-blitz", "scenario"}

NoCampaign == [status |-> "none"]

Steps(c) == 1..Len(c.steps)

\* Values that travel between steps: the part of the output of step `from`
\* they were read from (from = 0: not read from any output)
Part(out, part) == [from |-> out.step, part |-> part]

Static(key) == [from |-> 0, part |-> key]

Undefined == [from |-> 0, part |-> "undefined"]

\* JSON.stringify(output)
Json(out) == Part(out, "json")

\* An output is the step it is stored in and the names of its fields that
\* hold a truthy value; NoOutput: step.output is not set
NoOutput == [step |-> 0, fields |-> {}]

Has(out, field) == field \in out.fields

\* out.field, undefined when the field is not there
Field(out, field) == IF Has(out, field) THEN Part(out, field) ELSE Undefined

\* An input object as a function from its keys to values
EmptyInput == [k \in {} |-> Undefined]

\* input.key = value
Put(input, key, value) ==
  [k \in DOMAIN input \cup {key} |-> IF k = key THEN value ELSE input[k]]

\* index.ts 314-322: the static input createCampaign stores in a step
mergeStepInput == [k \in {"topic"} |-> Static(k)]

\* Payloads of the replies of a worker.  A result carries its output under
\* `output` or, when that is missing, is stored whole; an error carries a
\* message, which may be empty.
ResultPayload(hasOutput, fields) == [hasOutput |-> hasOutput, fields |-> fields]

FullPayload == ResultPayload(TRUE, {"findings", "content", "editedContent", "title"})

ResultPayloads ==
  {FullPayload, ResultPayload(TRUE, {"optimizedContent", "primaryKeyword"}),
   ResultPayload(FALSE, {})}

ErrorPayloads == {[message |-> "timeout"], [message |-> ""]}

\* the payload the replies carry where the data is not looked at
Reply(type) == IF type = "error" THEN [message |-> "timeout"] ELSE FullPayload

\* index.ts 236: step.output = result.payload.output || result.payload
storedOutput(i, payload) ==
  [step |-> i, fields |-> IF payload.hasOutput THEN payload.fields ELSE {"success"}]

\* index.ts 232: result.payload.message || "Agent returned error"
errorMessage(payload) ==
  IF payload.message # "" THEN payload.message ELSE "Agent returned error"

\* index.ts 330-361: what the output of one dependency adds to the input of a
\* step, by the agents of the two steps
feed(input, agent, depAgent, out) ==
  LET research == IF depAgent = "researcher" /\ agent = "writer"
                  THEN Put(input, "research",
                           IF Has(out, "findings") THEN Part(out, "findings")
                           ELSE Part(out, "whole"))
                  ELSE input
      edited == IF depAgent = "writer" /\ agent = "editor"
                THEN LET content == Put(research, "content",
                                        IF Has(out, "content") THEN Part(out, "content")
                                        ELSE Json(out)) IN
                     IF Has(out, "primaryKeyword")
                     THEN Put(content, "keywords", Part(out, "primaryKeyword"))
                     ELSE content
                ELSE research
      branded == IF depAgent = "editor" /\ agent = "brand-manager"
                 THEN Put(edited, "content",
                          IF Has(out, "editedContent") THEN Part(out, "editedContent")
                          ELSE IF Has(out, "optimizedContent") THEN Part(out, "optimizedContent")
                          ELSE Json(out))
                 ELSE edited
      social == IF depAgent \in {"writer", "editor"} /\ agent = "social-writer"
                THEN Put(Put(branded, "content",
                             IF Has(out, "content") THEN Part(out, "content")
                             ELSE IF Has(out, "editedContent") THEN Part(out, "editedContent")
                             ELSE Json(out)),
                         "title", Field(out, "title"))
                ELSE branded
      published == IF agent = "publisher"
                        /\ (Has(out, "content") \/ Has(out, "editedContent"))
                   THEN Put(Put(social, "content",
                                IF Has(out, "editedContent") THEN Part(out, "editedContent")
                                ELSE Part(out, "content")),
                            "title", Field(out, "title"))
                   ELSE social IN
  IF agent = "publisher" /\ depAgent = "social-writer"
  THEN Put(published, "socialPosts", Part(out, "whole"))
  ELSE published

\* index.ts 328-362: the loop over the ids in `from`, in their order; an id
\* that names no step, or a step without output, adds nothing
RECURSIVE feedEach(_, _, _, _)
feedEach(input, c, i, from) ==
  IF from = {} THEN input
  ELSE LET d == CHOOSE x \in from : \A y \in from : x <= y
           fed == IF d \in Steps(c) /\ c.output[d] # NoOutput
                  THEN feed(input, c.agent[i], c.agent[d], c.output[d])
                  ELSE input IN
       feedEach(fed, c, i, from \ {d})

\* mutant of enrichStepInput: the outputs of all the steps are fed, not only
\* those of the steps in dependsOn
enrichStepInputFromAll(c, i) ==
  [input |-> feedEach(c.input[i], c, i, Steps(c)), c |-> c]

\* index.ts 324-365: the input sent for step i, built on a copy of the stored
\* input ({ ...step.input }) from the outputs of the steps in dependsOn; the
\* campaign it returns with is the campaign as the call leaves it
enrichStepInput(c, i) ==
  [input |-> feedEach(c.input[i], c, i, c.dependsOn[i]), c |-> c]

\* mutant of dependenciesMet: a dependency that is over (done, failed or
\* skipped) counts as met
dependenciesMetOver(c, i) ==
  \/ c.dependsOn[i] = {}
  \/ \A d \in c.dependsOn[i] : d \in Steps(c) /\ c.steps[d] \in {"done", "failed", "skipped"}

\* index.ts 367-373: every dependsOn id names a step whose status is done
dependenciesMet(c, i) ==
  \/ c.dependsOn[i] = {}
  \/ \A d \in c.dependsOn[i] : d \in Steps(c) /\ c.steps[d] = "done"

\* Math.round of a non-negative quotient n / d
Round(n, d) == (2 * n + d) \div (2 * d)

\* index.ts 375-379
updateProgress(c) ==
  LET total == Len(c.steps)
      done == Cardinality({i \in Steps(c) : c.steps[i] \in {"done", "skipped"}}) IN
  [c EXCEPT !.progress = Round(done * 100, total)]

\* mutant of finalStatus: the status is left as the loop left it
finalStatusKept(c) == c

\* mutant of finalStatus: only an all-done-or-skipped campaign is completed
finalStatusAllDoneOnly(c) ==
  IF \A i \in Steps(c) : c.steps[i] \in {"done", "skipped"}
  THEN [c EXCEPT !.status = "completed"] ELSE c

\* index.ts 275-285: determine final status
finalStatus(c) ==
  LET allDone == \A i \in Steps(c) : c.steps[i] \in {"done", "skipped"}
      anyFailed == \E i \in Steps(c) : c.steps[i] = "failed"
      anyPending == \E i \in Steps(c) : c.steps[i] = "pending" IN
  IF allDone THEN [c EXCEPT !.status = "completed"]
  ELSE IF anyFailed /\ ~anyPending THEN [c EXCEPT !.status = "completed"]
  ELSE c

\* index.ts 196-217: the part of the loop that runs without an await, from
\* step i on: break on paused, skip steps whose dependencies are not met, and
\* stop at the first step to execute (marked running, progress recomputed) or
\* at the end of the loop.
RECURSIVE loop(_, _)
loop(c, i) ==
  IF i > Len(c.steps) \/ c.status = "paused"
  THEN [c |-> c, at |-> 0]
  ELSE IF ~dependenciesMet(c, i)
  THEN loop([c EXCEPT !.steps[i] = "skipped"], i + 1)
  ELSE [c |-> updateProgress([c EXCEPT !.currentStep = i - 1, !.steps[i] = "running"]),
        at |-> i]

Idle == [pc |-> "idle", i |-> 0]

\* The statuses the dependencies of step i have in c ("missing" for an id that
\* names no step)
DepStatuses(c, i) ==
  {IF d \in Steps(c) THEN c.steps[d] ELSE "missing" : d \in c.dependsOn[i]}

\* Carry on a pass from step i: either a step is sent to the bus (the pass
\* waits at `await this.bus.send`) or the loop is over, the final status is
\* determined and runCampaign returns.
Advance(p, c, i) ==
  LET r == loop(c, i) IN
  IF r.at > 0
  THEN LET enriched == enrichStepInput(r.c, r.at) IN
       /\ campaign' = enriched.c
       /\ sentInput' = [sentInput EXCEPT ![r.at] = enriched.input]
       /\ passes' = [passes EXCEPT ![p] = [pc |-> "sending", i |-> r.at]]
       /\ depsAtStart' = [depsAtStart EXCEPT ![r.at] = DepStatuses(r.c, r.at)]
  ELSE /\ campaign' = finalStatus(r.c)
       /\ passes' = [passes EXCEPT ![p] = Idle]
       /\ UNCHANGED <<depsAtStart, sentInput>>

\* index.ts 126-181: a campaign built from a strategy template: steps
\* step_1..step_n, all pending
createCampaign(strategy) ==
  /\ campaign = NoCampaign
  /\ LET template == getStrategy(strategy) IN
       campaign' = [status |-> "planning",
                    strategy |-> strategy,
                    steps |-> [i \in 1..Len(template) |-> "pending"],
                    agent |-> [i \in 1..Len(template) |-> template[i].agent],
                    input |-> [i \in 1..Len(template) |-> mergeStepInput],
                    output |-> [i \in 1..Len(template) |-> NoOutput],
                    dependsOn |-> [i \in 1..Len(template) |-> template[i].dependsOn],
                    currentStep |-> 0,
                    results |-> <<>>,
                    progress |-> 0]
  /\ UNCHANGED <<passes, calls, depsAtStart, sentInput>>
  /\ UNCHANGED notRun

\* index.ts 185-189: runCampaign on a completed or failed campaign throws
runCampaignRefused ==
  /\ campaign.status \in {"completed", "failed"}
  /\ calls.run < MaxRuns
  /\ calls' = [calls EXCEPT !.run = @ + 1]
  /\ UNCHANGED <<campaign, passes, depsAtStart, sentInput>>
  /\ UNCHANGED notRun

\* index.ts 185-229: runCampaign from its start to its first await
runCampaign(p) ==
  /\ passes[p].pc = "idle"
  /\ \A q \in Passes : q < p => passes[q].pc # "idle"
  /\ campaign.status \in {"planning", "active", "paused"}
  /\ calls.run < MaxRuns
  /\ calls' = [calls EXCEPT !.run = @ + 1]
  /\ Advance(p, [campaign EXCEPT !.status = "active"], 1)
  /\ UNCHANGED notRun

\* mutant of busReturned: a failed step leaves no StepResult
busReturnedUnlogged(p, type, payload) ==
  /\ passes[p].pc = "sending"
  /\ LET i == passes[p].i IN
       campaign' = updateProgress(
         IF type = "error"
         THEN [campaign EXCEPT !.steps[i] = "failed"]
         ELSE [campaign EXCEPT
                 !.steps[i] = "done",
                 !.output[i] = storedOutput(i, payload),
                 !.results = Append(@, [stepId |-> i, status |-> "done",
                                        output |-> storedOutput(i, payload)])])
  /\ passes' = [passes EXCEPT ![p].pc = "saving"]
  /\ UNCHANGED <<calls, depsAtStart, sentInput>>
  /\ UNCHANGED notRun

\* index.ts 229-272: bus.send returned; a result marks the step done and
\* stores its output, an error message (or a rejection) marks it failed; one
\* StepResult is appended and progress recomputed; the pass then waits at
\* `await this.saveCampaigns()`
busReturned(p, type, payload) ==
  /\ passes[p].pc = "sending"
  /\ LET i == passes[p].i IN
       campaign' = updateProgress(
         IF type = "error"
         THEN [campaign EXCEPT
                 !.steps[i] = "failed",
                 !.results = Append(@, [stepId |-> i, status |-> "failed",
                                        output |-> [error |-> errorMessage(payload)]])]
         ELSE [campaign EXCEPT
                 !.steps[i] = "done",
                 !.output[i] = storedOutput(i, payload),
                 !.results = Append(@, [stepId |-> i, status |-> "done",
                                        output |-> storedOutput(i, payload)])])
  /\ passes' = [passes EXCEPT ![p].pc = "saving"]
  /\ UNCHANGED <<calls, depsAtStart, sentInput>>
  /\ UNCHANGED notRun

\* index.ts 272-292: saveCampaigns finished; next iteration of the loop
saved(p) ==
  /\ passes[p].pc = "saving"
  /\ Advance(p, campaign, passes[p].i + 1)
  /\ UNCHANGED calls
  /\ UNCHANGED notRun

\* index.ts 418-423
pauseCampaign ==
  /\ campaign # NoCampaign
  /\ calls.pause < MaxPauses
  /\ campaign' = [campaign EXCEPT !.status = "paused"]
  /\ calls' = [calls EXCEPT !.pause = @ + 1]
  /\ UNCHANGED <<passes, depsAtStart, sentInput>>
  /\ UNCHANGED notRun

InitRun ==
  /\ campaign = NoCampaign
  /\ passes = [p \in Passes |-> Idle]
  /\ calls = [run |-> 0, pause |-> 0]
  /\ depsAtStart = [i \in 1..8 |-> {}]
  /\ sentInput = [i \in 1..8 |-> EmptyInput]

NoPassInFlight == \A p \in Passes : passes[p].pc = "idle"

\* Requests handled one after the other: a run-campaign request arrives only
\* when no runCampaign() call is in flight (pause requests arrive at any await)
NextRunSeq ==
  \/ \E strategy \in Strategies : createCampaign(strategy)
  \/ runCampaignRefused
  \/ \E p \in Passes : NoPassInFlight /\ runCampaign(p)
  \/ \E p \in Passes, type \in {"result", "error"} : busReturned(p, type, Reply(type))
  \/ \E p \in Passes : saved(p)
  \/ pauseCampaign

\* Requests handled concurrently: runCampaign() calls may overlap
NextRun ==
  \/ \E strategy \in ShortStrategies : createCampaign(strategy)
  \/ runCampaignRefused
  \/ \E p \in Passes : runCampaign(p)
  \/ \E p \in Passes, type \in {"result", "error"} : busReturned(p, type, Reply(type))
  \/ \E p \in Passes : saved(p)
  \/ pauseCampaign

\* Bound of the callers whose workers answer with every payload: replies of
\* the bus handled
MaxResponses == 7

\* Run requests handled one after the other, with no pause request, for the
\* Runs whose steps feed each other, the workers answering with every payload
NextRunData ==
  \/ \E strategy \in {"product-launch", "social-blitz"} : createCampaign(strategy)
  \/ runCampaignRefused
  \/ \E p \in Passes : NoPassInFlight /\ runCampaign(p)
  \/ \E p \in Passes, payload \in ResultPayloads :
        busReturned(p, "result", payload) /\ Len(campaign.results) < MaxResponses
  \/ \E p \in Passes, payload \in ErrorPayloads :
        busReturned(p, "error", payload) /\ Len(campaign.results) < MaxResponses
  \/ \E p \in Passes : saved(p)

\* ========================================================================
\*  TenantStore: plans, usage counters and the admission check
\* ========================================================================

\* Bounds of the tenant model
MaxDay == 2          \* days of a month the clock visits
MaxTracks == 4       \* trackUsage() calls

\* Tenant ids, in the order create() hands them out
IdOrder == <<"t1", "t2">>
TenantIds == Range(IdOrder)

\* The months the clock visits
Months == {1, 2}

NoTenant == [active |-> FALSE, plan |-> "none"]

\* tenant.ts 400-401: the id of a deleted tenant is in neither map again (ids
\* are random, so create() never hands it out a second time)
Deleted == [active |-> FALSE, plan |-> "deleted"]

\* this.tenants.get(id) is defined
has(id) == tenants[id] \notin {NoTenant, Deleted}

\* tenant.ts 36-47 and 58: the parts of TenantMemory the context is rendered
\* from; a brand field that is not set is ""
BrandKeys == {"name", "voice"}

EmptyMemory == [brand |-> [k \in BrandKeys |-> ""], pastTopics |-> <<>>]

\* The updates updateMemory() is called with
BrandUpdate == [brand |-> [name |-> "acme"]]

TopicUpdate == [history |-> [pastTopics |-> <<"ai">>]]

MemoryUpdates == {BrandUpdate, [brand |-> [voice |-> "bold"]], TopicUpdate}

\* Bound of the memory: past topics kept per tenant
MaxTopics == 1

\* Worker names a permission check asks for
AgentNames == {"writer", "seo"}

NoQuery == [op |-> "none"]

\* tenant.ts 209 and 272: .slice(-100) and .slice(-10)
KeptTopics == 100
ShownTopics == 10

\* s.slice(-n)
LastOf(s, n) == IF Len(s) <= n THEN s ELSE SubSeq(s, Len(s) - n + 1, Len(s))

\* tenant.ts 92-113: the limits of the built-in plans that matter for admission
Limits(perDay, perMonth, allowedAgents) ==
  [requestsPerDay |-> perDay, requestsPerMonth |-> perMonth, agentsAllowed |-> allowedAgents]

PLANS ==
  [free |-> [name |-> "free",
             limits |-> Limits(10, 100, {"writer", "editor", "content-repurposer", "email-marketing"})],
   starter |-> [name |-> "starter", limits |-> Limits(50, 1000, {"*"})],
   pro |-> [name |-> "pro", limits |-> Limits(500, 10000, {"*"})],
   enterprise |-> [name |-> "enterprise", limits |-> Limits(-1, -1, {"*"})]]

\* Plans a caller of update() assigns: a TenantPlan with small limits
CustomPlans == {[name |-> "custom", limits |-> Limits(2, 3, {"*"})]}

\* Plans with the two limit values on the edge: a daily limit of 0 with no
\* monthly limit (-1)
EdgePlans == {[name |-> "edge", limits |-> Limits(0, -1, {"*"})]}

\* The plan names create() is called with; an unknown name falls back to free
PlanNames == {"free", "unknown"}

\* new Date().toISOString().slice(0, 10) and .slice(0, 7)
Today == clock
Month == clock[1]

\* tenant.ts 299 and 302: the reasons of the two quota denials
DailyLimitReached == "Daily limit reached"
MonthlyLimitReached == "Monthly limit reached"
QUOTA_EXCEEDED == {DailyLimitReached, MonthlyLimitReached}

\* tenant.ts 288-296: lazy reset of the counters of an outdated day / month
rollover(usage) ==
  LET u1 == IF usage.today.date # Today
            THEN [usage EXCEPT !.today = [date |-> Today, requests |-> 0]]
            ELSE usage IN
  IF u1.month.month # Month
  THEN [u1 EXCEPT !.month = [month |-> Month, requests |-> 0]]
  ELSE u1

\* mutant of dailyLimitMet: the limit is met one request late
dailyLimitMetLate(limits, usage) ==
  limits.requestsPerDay > 0 /\ usage.today.requests > limits.requestsPerDay

\* mutant of dailyLimitMet: the requests of the checks still suspended in
\* saveTenant are not counted yet (the increment moved behind the await)
dailyLimitMetUncounted(limits, usage) ==
  limits.requestsPerDay > 0 /\ usage.today.requests - persisting >= limits.requestsPerDay

\* tenant.ts 298
dailyLimitMet(limits, usage) ==
  limits.requestsPerDay > 0 /\ usage.today.requests >= limits.requestsPerDay

\* tenant.ts 301
monthlyLimitMet(limits, usage) ==
  limits.requestsPerMonth > 0 /\ usage.month.requests >= limits.requestsPerMonth

NoTrack == [tenantId |-> "none"]

\* How many admission checks can be suspended in saveTenant at once
Checkers == {1, 2}

NoneAdmitted == [checks |-> 0, allowed |-> 0, month |-> 0, steady |-> TRUE]

\* tenant.ts 134-162: a new tenant (its id is fresh) on the named plan, active,
\* all counters 0, periods set to the current day and month
create(id, planName) ==
  /\ tenants[id] = NoTenant
  /\ \A k \in 1..(IndexOf(IdOrder, id) - 1) : tenants[IdOrder[k]] # NoTenant
  /\ LET plan == IF planName \in DOMAIN PLANS THEN PLANS[planName] ELSE PLANS.free IN
       tenants' = [tenants EXCEPT ![id] =
                     [active |-> TRUE,
                      plan |-> plan,
                      memory |-> EmptyMemory,
                      usage |-> [today |-> [date |-> Today, requests |-> 0],
                                 month |-> [month |-> Month, requests |-> 0],
                                 allTime |-> [requests |-> 0]]]]
  /\ lastTrack' = NoTrack
  /\ lastQuery' = NoQuery
  /\ UNCHANGED <<clock, admitted, tracks, persisting, rendered>>
  /\ UNCHANGED notTenant

\* tenant.ts 173-179: Object.assign(tenant, updates), here with updates that
\* set `active` or `plan`; an unknown id changes nothing, and so does an
\* update to the value the field has
update(id, field, value) ==
  /\ has(id)
  /\ tenants[id][field] # value
  /\ tenants' = [tenants EXCEPT ![id][field] = value]
  /\ admitted' = [admitted EXCEPT ![id].steady = @ /\ field # "plan"]
  /\ lastTrack' = NoTrack
  /\ lastQuery' = NoQuery
  /\ UNCHANGED <<clock, tracks, persisting, rendered>>
  /\ UNCHANGED notTenant

\* mutant of trackUsage: the request is counted before the limits are looked at
trackUsageCountFirst(tenantId, suspended) ==
  /\ tracks < MaxTracks
  /\ suspended => persisting < Cardinality(Checkers)
  /\ tracks' = tracks + 1
  /\ LET tenant == tenants[tenantId] IN
     IF ~has(tenantId)
     THEN /\ lastTrack' = [tenantId |-> tenantId, found |-> FALSE, allowed |-> FALSE,
                           reason |-> "Tenant not found"]
          /\ UNCHANGED <<tenants, admitted, persisting>>
     ELSE IF ~tenant.active
     THEN /\ lastTrack' = [tenantId |-> tenantId, found |-> TRUE, active |-> FALSE,
                           allowed |-> FALSE, reason |-> "Account disabled"]
          /\ UNCHANGED <<tenants, admitted, persisting>>
     ELSE
       LET usage == rollover(tenant.usage)
           limits == tenant.plan.limits
           seen == [tenantId |-> tenantId, found |-> TRUE, active |-> TRUE,
                    limits |-> limits,
                    today |-> usage.today.requests,
                    month |-> usage.month.requests,
                    check |-> admitted[tenantId].checks + 1,
                    allowedToday |-> admitted[tenantId].allowed,
                    allowedMonth |-> admitted[tenantId].month,
                    steady |-> admitted[tenantId].steady]
           denied(reason) ==
             /\ tenants' = [tenants EXCEPT ![tenantId].usage =
                              [today |-> [usage.today EXCEPT !.requests = @ + 1],
                               month |-> [usage.month EXCEPT !.requests = @ + 1],
                               allTime |-> [requests |-> usage.allTime.requests + 1]]]
             /\ admitted' = [admitted EXCEPT ![tenantId].checks = @ + 1]
             /\ lastTrack' = seen @@ [allowed |-> FALSE, reason |-> reason,
                                      requests |-> usage.today.requests]
             /\ UNCHANGED persisting
       IN
       IF dailyLimitMet(limits, usage) THEN denied(DailyLimitReached)
       ELSE IF monthlyLimitMet(limits, usage) THEN denied(MonthlyLimitReached)
       ELSE /\ tenants' = [tenants EXCEPT ![tenantId].usage =
                             [today |-> [usage.today EXCEPT !.requests = @ + 1],
                              month |-> [usage.month EXCEPT !.requests = @ + 1],
                              allTime |-> [requests |-> usage.allTime.requests + 1]]]
            /\ admitted' = [admitted EXCEPT ![tenantId].checks = @ + 1,
                                             ![tenantId].allowed = @ + 1,
                                             ![tenantId].month = @ + 1]
            /\ lastTrack' = seen @@ [allowed |-> TRUE, reason |-> "",
                                     requests |-> usage.today.requests + 1]
            /\ persisting' = persisting + (IF suspended THEN 1 ELSE 0)
  /\ lastQuery' = NoQuery
  /\ UNCHANGED <<clock, rendered>>
  /\ UNCHANGED notTenant

\* tenant.ts 280-319: the admission check.  All its reads and writes happen
\* before its only await (saveTenant), so they are one step.  A denied check
\* returns at once.  An allowed check awaits saveTenant: with `suspended` it
\* stays there while other calls run (usageSaved resumes it), without it the
\* write is over before the next call starts.
trackUsage(tenantId, suspended) ==
  /\ tracks < MaxTracks
  /\ suspended => persisting < Cardinality(Checkers)
  /\ tracks' = tracks + 1
  /\ LET tenant == tenants[tenantId] IN
     IF ~has(tenantId)
     THEN /\ lastTrack' = [tenantId |-> tenantId, found |-> FALSE, allowed |-> FALSE,
                           reason |-> "Tenant not found"]
          /\ UNCHANGED <<tenants, admitted, persisting>>
     ELSE IF ~tenant.active
     THEN /\ lastTrack' = [tenantId |-> tenantId, found |-> TRUE, active |-> FALSE,
                           allowed |-> FALSE, reason |-> "Account disabled"]
          /\ UNCHANGED <<tenants, admitted, persisting>>
     ELSE
       LET usage == rollover(tenant.usage)
           limits == tenant.plan.limits
           seen == [tenantId |-> tenantId, found |-> TRUE, active |-> TRUE,
                    limits |-> limits,
                    today |-> usage.today.requests,
                    month |-> usage.month.requests,
                    check |-> admitted[tenantId].checks + 1,
                    allowedToday |-> admitted[tenantId].allowed,
                    allowedMonth |-> admitted[tenantId].month,
                    steady |-> admitted[tenantId].steady]
           denied(reason) ==
             /\ tenants' = [tenants EXCEPT ![tenantId].usage = usage]
             /\ admitted' = [admitted EXCEPT ![tenantId].checks = @ + 1]
             /\ lastTrack' = seen @@ [allowed |-> FALSE, reason |-> reason,
                                      requests |-> usage.today.requests]
             /\ UNCHANGED persisting
       IN
       IF dailyLimitMet(limits, usage) THEN denied(DailyLimitReached)
       ELSE IF monthlyLimitMet(limits, usage) THEN denied(MonthlyLimitReached)
       ELSE /\ tenants' = [tenants EXCEPT ![tenantId].usage =
                             [today |-> [usage.today EXCEPT !.requests = @ + 1],
                              month |-> [usage.month EXCEPT !.requests = @ + 1],
                              allTime |-> [requests |-> usage.allTime.requests + 1]]]
            /\ admitted' = [admitted EXCEPT ![tenantId].checks = @ + 1,
                                             ![tenantId].allowed = @ + 1,
                                             ![tenantId].month = @ + 1]
            /\ lastTrack' = seen @@ [allowed |-> TRUE, reason |-> "",
                                     requests |-> usage.today.requests + 1]
            /\ persisting' = persisting + (IF suspended THEN 1 ELSE 0)
  /\ lastQuery' = NoQuery
  /\ UNCHANGED <<clock, rendered>>
  /\ UNCHANGED notTenant

\* tenant.ts 317-318: saveTenant resolves and a suspended admission check
\* returns { allowed: true }; it reads and writes no field of any tenant
usageSaved ==
  /\ persisting > 0
  /\ persisting' = persisting - 1
  /\ UNCHANGED <<tenants, clock, lastTrack, admitted, tracks, lastQuery, rendered>>
  /\ UNCHANGED notTenant

\* tenant.ts 191-232: merge the updates into the tenant's memory; an unknown
\* id changes nothing
updateMemory(tenantId, updates) ==
  /\ has(tenantId)
  /\ "history" \in DOMAIN updates =>
        Len(tenants[tenantId].memory.pastTopics) + Len(updates.history.pastTopics) <= MaxTopics
  /\ LET memory == tenants[tenantId].memory
         brand == IF "brand" \in DOMAIN updates
                  THEN [k \in BrandKeys |->
                          IF k \in DOMAIN updates.brand THEN updates.brand[k] ELSE memory.brand[k]]
                  ELSE memory.brand
         pastTopics == IF "history" \in DOMAIN updates /\ Len(updates.history.pastTopics) > 0
                       THEN LastOf(memory.pastTopics \o updates.history.pastTopics, KeptTopics)
                       ELSE memory.pastTopics IN
       tenants' = [tenants EXCEPT ![tenantId].memory = [brand |-> brand, pastTopics |-> pastTopics]]
  /\ lastTrack' = NoTrack
  /\ lastQuery' = NoQuery
  /\ UNCHANGED <<clock, admitted, tracks, persisting, rendered>>
  /\ UNCHANGED notTenant

\* tenant.ts 396-411: forget the tenant; an unknown id changes nothing
deleteTenant(tenantId) ==
  /\ has(tenantId)
  /\ tenants' = [tenants EXCEPT ![tenantId] = Deleted]
  /\ lastTrack' = NoTrack
  /\ lastQuery' = NoQuery
  /\ UNCHANGED <<clock, admitted, tracks, persisting, rendered>>
  /\ UNCHANGED notTenant

\* A call that reads the store and returns `result`
Read(op, tenantId, result) ==
  /\ lastQuery' = [op |-> op, tenantId |-> tenantId, result |-> result]
  /\ lastQuery' # lastQuery
  /\ lastTrack' = NoTrack
  /\ UNCHANGED <<tenants, clock, admitted, tracks, persisting>>
  /\ UNCHANGED notTenant

\* A call that reads the store, returns `result` and is no getTenantContext()
Query(op, tenantId, result) == Read(op, tenantId, result) /\ UNCHANGED rendered

\* tenant.ts 331-332: the reason of a denied permission check
PLAN_RESTRICTED == "Agent is not available on the plan"

\* mutant of agentAllowed: "*" is looked up like any other name
agentAllowedByName(limits, agentName) ==
  agentName \in limits.agentsAllowed

\* tenant.ts 326-327
agentAllowed(limits, agentName) ==
  "*" \in limits.agentsAllowed \/ agentName \in limits.agentsAllowed

\* tenant.ts 322-334: the worker-permission check
canUseAgent(tenantId, agentName) ==
  Query("canUseAgent", tenantId,
        IF ~has(tenantId)
        THEN [allowed |-> FALSE, reason |-> "Tenant not found", agentName |-> agentName,
              found |-> FALSE]
        ELSE [allowed |-> agentAllowed(tenants[tenantId].plan.limits, agentName),
              reason |-> IF agentAllowed(tenants[tenantId].plan.limits, agentName)
                         THEN "" ELSE PLAN_RESTRICTED,
              agentName |-> agentName, found |-> TRUE,
              active |-> tenants[tenantId].active,
              agentsAllowed |-> tenants[tenantId].plan.limits.agentsAllowed])

\* tenant.ts 164-166
getById(id) ==
  Query("getById", id, IF has(id) THEN tenants[id] ELSE NoTenant)

\* tenant.ts 168-171: the key index maps the key of a tenant to its id
getByApiKey(id) ==
  Query("getByApiKey", id, IF has(id) THEN tenants[id] ELSE NoTenant)

\* mutant of getTenantContextText: a tenant with no topic of its own is
\* shown the topics of all tenants
getTenantContextTextShared(tenantId) ==
  IF ~has(tenantId) THEN <<>>
  ELSE LET m == tenants[tenantId].memory
           all == {t \in TenantIds : has(t) /\ Len(tenants[t].memory.pastTopics) > 0}
           topics == IF Len(m.pastTopics) = 0 /\ all # {}
                     THEN tenants[CHOOSE t \in all : TRUE].memory.pastTopics
                     ELSE m.pastTopics IN
       (IF m.brand.name # "" THEN <<<<"Name", m.brand.name>>>> ELSE <<>>)
       \o [i \in 1..Len(topics) |-> <<"topic", topics[i]>>]

\* tenant.ts 235-276: the context text, as the list of its lines
getTenantContextText(tenantId) ==
  IF ~has(tenantId) THEN <<>>
  ELSE LET m == tenants[tenantId].memory IN
       (IF m.brand.name # ""
        THEN <<<<"Name", m.brand.name>>>> \o
             (IF m.brand.voice # "" THEN <<<<"Brand voice", m.brand.voice>>>> ELSE <<>>)
        ELSE <<>>)
       \o [i \in 1..Len(LastOf(m.pastTopics, ShownTopics)) |->
             <<"topic", LastOf(m.pastTopics, ShownTopics)[i]>>]

NoContext == [tenantId |-> "none"]

\* the memory of a tenant id, of an unknown id none
memoryOf(id) == IF has(id) THEN tenants[id].memory ELSE [brand |-> "none"]

\* tenant.ts 235-276.  The observation keeps the text, the memory of the
\* tenant and of the other tenants at the call, and whether the call before
\* it rendered the same tenant with the same memory while the memory of
\* another tenant was different.
getTenantContext(tenantId) ==
  /\ Read("getTenantContext", tenantId, getTenantContextText(tenantId))
  /\ LET others == [o \in TenantIds \ {tenantId} |-> memoryOf(o)] IN
       rendered' = [tenantId |-> tenantId,
                    memory |-> memoryOf(tenantId),
                    others |-> others,
                    text |-> getTenantContextText(tenantId),
                    again |-> /\ rendered.tenantId = tenantId
                              /\ rendered.memory = memoryOf(tenantId)
                              /\ rendered.others # others]

\* tenant.ts 414-423
exportTenantData(tenantId) ==
  Query("exportTenantData", tenantId,
        IF ~has(tenantId) THEN NoTenant
        ELSE [plan |-> tenants[tenantId].plan.name,
              memory |-> tenants[tenantId].memory,
              usage |-> tenants[tenantId].usage])

\* The UTC date changes: the next day of the month, or the first day of the
\* next month
nextDay ==
  /\ \/ clock[2] < MaxDay /\ clock' = <<clock[1], clock[2] + 1>>
        /\ admitted' = [t \in TenantIds |->
                           [admitted[t] EXCEPT !.checks = 0, !.allowed = 0, !.steady = TRUE]]
     \/ clock[1] + 1 \in Months /\ clock' = <<clock[1] + 1, 1>>
        /\ admitted' = [t \in TenantIds |-> NoneAdmitted]
  /\ lastTrack' = NoTrack
  /\ lastQuery' = NoQuery
  /\ UNCHANGED <<tenants, tracks, persisting, rendered>>
  /\ UNCHANGED notTenant

InitTenant ==
  /\ tenants = [t \in TenantIds |-> NoTenant]
  /\ clock = <<1, 1>>
  /\ lastTrack = NoTrack
  /\ admitted = [t \in TenantIds |-> NoneAdmitted]
  /\ tracks = 0
  /\ persisting = 0
  /\ lastQuery = NoQuery
  /\ rendered = NoContext

NextTenant ==
  \/ \E id \in TenantIds, planName \in PlanNames : create(id, planName)
  \/ \E id \in TenantIds, active \in BOOLEAN : update(id, "active", active)
  \/ \E id \in TenantIds, plan \in CustomPlans : update(id, "plan", plan)
  \/ \E tenantId \in TenantIds : trackUsage(tenantId, FALSE)
  \/ nextDay

\* The same callers when they do not wait for each other: admission checks
\* overlap, each allowed one suspended while its tenant is written
NextTenantConcurrent ==
  \/ \E id \in TenantIds, planName \in PlanNames : create(id, planName)
  \/ \E id \in TenantIds, plan \in CustomPlans : update(id, "plan", plan)
  \/ \E tenantId \in TenantIds, suspended \in BOOLEAN : trackUsage(tenantId, suspended)
  \/ usageSaved
  \/ nextDay

\* Callers that disable, enable and delete tenants and ask for admission and
\* for permission to use a worker
NextTenantAccess ==
  \/ \E id \in TenantIds, planName \in {"free", "starter"} : create(id, planName)
  \/ \E id \in TenantIds, active \in BOOLEAN : update(id, "active", active)
  \/ \E tenantId \in TenantIds : deleteTenant(tenantId)
  \/ \E tenantId \in TenantIds : updateMemory(tenantId, BrandUpdate)
  \/ \E tenantId \in TenantIds : trackUsage(tenantId, FALSE)
  \/ \E tenantId \in TenantIds, agentName \in AgentNames : canUseAgent(tenantId, agentName)

\* A TenantUsage a caller of update() passes: all counters 0 for the current
\* periods
FreshUsage ==
  [today |-> [date |-> Today, requests |-> 0],
   month |-> [month |-> Month, requests |-> 0],
   allTime |-> [requests |-> 0]]

\* The partial tenants update() is called with, as <<field, value>>
Partials ==
  {<<"active", FALSE>>, <<"plan", PLANS.starter>>,
   <<"usage", FreshUsage>>, <<"memory", EmptyMemory>>}

\* Bound of the callers of the whole store and of those that write memory:
\* their admission checks
MaxChecks == 1

\* Callers of every operation of the store
NextTenantStore ==
  \/ \E id \in TenantIds, planName \in PlanNames : create(id, planName)
  \/ \E id \in TenantIds, updates \in Partials : update(id, updates[1], updates[2])
  \/ \E tenantId \in TenantIds : updateMemory(tenantId, BrandUpdate)
  \/ \E tenantId \in TenantIds : deleteTenant(tenantId)
  \/ \E tenantId \in TenantIds : tracks < MaxChecks /\ trackUsage(tenantId, FALSE)
  \/ \E tenantId \in TenantIds : canUseAgent(tenantId, "seo")
  \/ \E id \in TenantIds : getById(id)
  \/ \E id \in TenantIds : getByApiKey(id)
  \/ \E tenantId \in TenantIds : getTenantContext(tenantId)
  \/ \E tenantId \in TenantIds : exportTenantData(tenantId)

\* Callers that write the memory of tenants and render their context
NextTenantMemory ==
  \/ \E id \in TenantIds, planName \in PlanNames : create(id, planName)
  \/ \E id \in TenantIds : update(id, "memory", EmptyMemory)
  \/ \E tenantId \in TenantIds, updates \in {BrandUpdate, TopicUpdate} :
        updateMemory(tenantId, updates)
  \/ \E tenantId \in TenantIds : deleteTenant(tenantId)
  \/ \E tenantId \in TenantIds : tracks < MaxChecks /\ trackUsage(tenantId, FALSE)
  \/ \E tenantId \in TenantIds : getTenantContext(tenantId)

\* Callers that put a tenant on a plan with a limit of 0 or -1
NextTenantEdge ==
  \/ \E id \in TenantIds, planName \in PlanNames : create(id, planName)
  \/ \E id \in TenantIds, plan \in EdgePlans : update(id, "plan", plan)
  \/ \E tenantId \in TenantIds : trackUsage(tenantId, FALSE)
  \/ nextDay

\* ========================================================================
\*  ResponseCache: tenant-scoped entries with expiry and a capacity
\* ========================================================================

\* Bounds of the cache model
MaxNow == 2          \* the clock runs from 0 to MaxNow
MaxHits == 1         \* hits counted per entry

\* cache.ts 29-30: the cache is constructed with options { ttlMs: 1 hour,
\* maxEntries: 2 }
defaultTTL == 2
maxEntries == 2

CacheAgents == {"writer", "editor"}
CacheActions == {"write-blog"}

\* Request inputs (`input: any`): the request every tenant may issue, written
\* with and without a field whose value is undefined
Inputs == {[topic |-> "a"], [topic |-> "a", tone |-> "undefined"]}

\* The text of the output a worker produced, and the outputs stored for a tenant
Bodies == {"o1"}
Outputs(tenantId) == {[for |-> tenantId, body |-> b] : b \in Bodies}

\* The ttlMs arguments of set(): absent (written 0, which `||` treats alike) or
\* 30 minutes
TTLs == {0, 1}

Miss == [for |-> "none", body |-> "null"]

\* cache.ts 138-163: the static TTL table, in units of 30 minutes, for the
\* actions of the model; an action it does not list gets 1 hour
TableActions == {"write-blog", "find-trends"}

getTTL(action) ==
  CASE action = "write-blog" -> 2
    [] action = "write-social" -> 1
    [] action \in {"find-trends", "daily-posts", "find-leads"} -> 0
    [] OTHER -> 2

\* JSON.stringify(input): a field whose value is undefined is left out
Stringify(input) ==
  [f \in {g \in DOMAIN input : input[g] # "undefined"} |-> input[f]]

\* mutant of makeKey: the tenant id is not part of the key
makeKeyShared(tenantId, agent, action, input) ==
  <<"", agent, action, Stringify(input)>>

\* cache.ts 42-46: sha256 of the JSON text of {tenantId, agent, action,
\* input}; the digest is taken to be free of collisions, the key is the text
makeKey(tenantId, agent, action, input) ==
  <<tenantId, agent, action, Stringify(input)>>

\* this.cache.get(key): the position of the entry with this key, 0 if none
Position(key) ==
  IF \E i \in 1..Len(cache) : cache[i].key = key
  THEN CHOOSE i \in 1..Len(cache) : cache[i].key = key
  ELSE 0

\* cache.ts 179-189: the first entry, in insertion order, with the smallest createdAt
Oldest(c) ==
  CHOOSE i \in 1..Len(c) :
    /\ \A j \in 1..Len(c) : c[i].createdAt <= c[j].createdAt
    /\ \A j \in 1..(i - 1) : c[j].createdAt > c[i].createdAt

evictOldest(c) == IF c = <<>> THEN c ELSE RemoveAt(c, Oldest(c))

\* Map.set: an existing key keeps its position and gets the new value, a new
\* key is appended
MapSet(c, entry) ==
  IF \E i \in 1..Len(c) : c[i].key = entry.key
  THEN [i \in 1..Len(c) |-> IF c[i].key = entry.key THEN entry ELSE c[i]]
  ELSE Append(c, entry)

NoOp == [op |-> "none"]

\* cache.ts 60: Date.now() > entry.expiresAt
expired(entry) == now > entry.expiresAt

\* cache.ts 49-69
get(tenantId, agent, action, input) ==
  LET key == makeKey(tenantId, agent, action, input)
      k == Position(key)
      seen == [op |-> "get", tenantId |-> tenantId, key |-> key, at |-> now] IN
  /\ IF k = 0
     THEN /\ lastOp' = seen @@ [found |-> FALSE, output |-> Miss]
          /\ UNCHANGED cache
     ELSE LET entry == cache[k]
              was == [found |-> TRUE, expiresAt |-> entry.expiresAt, stored |-> entry.output] IN
          IF expired(entry)
          THEN /\ cache' = RemoveAt(cache, k)
               /\ lastOp' = seen @@ was @@ [output |-> Miss]
          ELSE /\ entry.hits < MaxHits
               /\ cache' = [cache EXCEPT ![k].hits = @ + 1]
               /\ lastOp' = seen @@ was @@ [output |-> entry.output]
  /\ UNCHANGED now
  /\ UNCHANGED notCache

\* cache.ts 72-96: the entry is built, the oldest entry evicted if the map is
\* at capacity, the entry stored; the write to disk that follows changes nothing
set(tenantId, agent, action, input, output, ttlMs) ==
  LET key == makeKey(tenantId, agent, action, input)
      entry == [key |-> key, tenantId |-> tenantId, agent |-> agent, action |-> action,
                output |-> output, createdAt |-> now,
                expiresAt |-> now + (IF ttlMs # 0 THEN ttlMs ELSE defaultTTL),
                hits |-> 0]
      room == IF Len(cache) >= maxEntries THEN evictOldest(cache) ELSE cache IN
  /\ cache' = MapSet(room, entry)
  /\ lastOp' = [op |-> "set", tenantId |-> tenantId, key |-> key]
  /\ UNCHANGED now
  /\ UNCHANGED notCache

\* cache.ts 99-108
invalidateTenant(tenantId) ==
  LET stays(entry) == ~(entry.tenantId = tenantId) IN
  /\ cache' = SelectSeq(cache, stays)
  /\ lastOp' = [op |-> "invalidateTenant", tenantId |-> tenantId,
                count |-> Len(cache) - Len(cache')]
  /\ UNCHANGED now
  /\ UNCHANGED notCache

\* mutant of invalidateAgent: the worker is not compared
invalidateAgentOfAny(tenantId, agent) ==
  LET stays(entry) == ~(entry.tenantId = tenantId) IN
  /\ cache' = SelectSeq(cache, stays)
  /\ lastOp' = [op |-> "invalidateAgent", tenantId |-> tenantId, agent |-> agent,
                count |-> Len(cache) - Len(cache')]
  /\ UNCHANGED now
  /\ UNCHANGED notCache

\* cache.ts 111-120
invalidateAgent(tenantId, agent) ==
  LET stays(entry) == ~(entry.tenantId = tenantId /\ entry.agent = agent) IN
  /\ cache' = SelectSeq(cache, stays)
  /\ lastOp' = [op |-> "invalidateAgent", tenantId |-> tenantId, agent |-> agent,
                count |-> Len(cache) - Len(cache')]
  /\ UNCHANGED now
  /\ UNCHANGED notCache

\* Time passes
tick ==
  /\ now < MaxNow
  /\ now' = now + 1
  /\ lastOp' = NoOp
  /\ UNCHANGED cache
  /\ UNCHANGED notCache

InitCache ==
  /\ cache = <<>>
  /\ now = 0
  /\ lastOp = NoOp

NextCache ==
  \/ \E tenantId \in TenantIds, agent \in CacheAgents, action \in CacheActions, input \in Inputs :
       get(tenantId, agent, action, input)
  \/ \E tenantId \in TenantIds, agent \in CacheAgents, action \in CacheActions, input \in Inputs,
        ttlMs \in TTLs :
       \E output \in Outputs(tenantId) : set(tenantId, agent, action, input, output, ttlMs)
  \/ \E tenantId \in TenantIds : invalidateTenant(tenantId)
  \/ \E tenantId \in TenantIds, agent \in CacheAgents : invalidateAgent(tenantId, agent)
  \/ tick

\* Callers that store every output with the TTL the table gives its action
NextCacheTable ==
  \/ \E tenantId \in TenantIds, action \in TableActions, input \in Inputs :
       get(tenantId, "researcher", action, input)
  \/ \E tenantId \in TenantIds, action \in TableActions, input \in Inputs :
       \E output \in Outputs(tenantId) :
         set(tenantId, "researcher", action, input, output, getTTL(action))
  \/ tick

\* ========================================================================
\*  Specifications
\* ========================================================================

Init == InitBus /\ InitRun /\ InitTenant /\ InitCache

SpecBus == Init /\ [][NextBus]_vars

SpecRun == Init /\ [][NextRun]_vars

SpecRunSeq == Init /\ [][NextRunSeq]_vars

SpecRunData == Init /\ [][NextRunData]_vars

SpecTenant == Init /\ [][NextTenant]_vars

SpecTenantConcurrent == Init /\ [][NextTenantConcurrent]_vars

SpecTenantEdge == Init /\ [][NextTenantEdge]_vars

SpecTenantAccess == Init /\ [][NextTenantAccess]_vars

SpecTenantStore == Init /\ [][NextTenantStore]_vars

SpecTenantMemory == Init /\ [][NextTenantMemory]_vars

SpecCache == Init /\ [][NextCache]_vars

SpecCacheTable == Init /\ [][NextCacheTable]_vars

\* A pass that waits for bus.send or saveCampaigns is resumed when the awaited
\* call settles; run and pause requests are up to the callers.
FairSpecRunSeq ==
  /\ SpecRunSeq
  /\ \A p \in Passes :
        /\ WF_vars(\E type \in {"result", "error"} : busReturned(p, type, Reply(type)))
        /\ WF_vars(saved(p))

FairSpecRun ==
  /\ SpecRun
  /\ \A p \in Passes :
        /\ WF_vars(\E type \in {"result", "error"} : busReturned(p, type, Reply(type)))
        /\ WF_vars(saved(p))

\* ------------------------------------------------------------------------
\*  Properties of the MessageBus
\* ------------------------------------------------------------------------

SingleSendDone == lastSend.how # "none" /\ lastSend.req.to # BROADCAST

BroadcastDone == lastSend.how # "none" /\ lastSend.req.to = BROADCAST

IsErrorReply(msg, req, code, retryable) ==
  /\ msg.type = "error"
  /\ msg.payload.code = code
  /\ msg.payload.retryable = retryable
  /\ msg.to = req.from
  /\ msg.replyTo = req.id

\* C1: a send whose target is not registered (and is not "*") returns, without
\* raising, an error message with the not-found code, retryable = false,
\* addressed to the sender with replyTo = the request id, and neither an
\* interceptor nor an agent was invoked for it.
C1_UnknownTargetReply ==
  (SingleSendDone /\ lastSend.req.to \notin Range(agents)) =>
     /\ lastSend.how = "returned"
     /\ IsErrorReply(lastSend.msg, lastSend.req, WORKER_NOT_FOUND, FALSE)
     /\ lastSend.entered = <<>>
     /\ lastSend.handled = <<>>

\* C1 witness: such a send finished while interceptors and other agents exist
C1_Witness ==
  /\ SingleSendDone
  /\ lastSend.req.to \notin Range(agents)
  /\ lastSend.req.id = "m2"
  /\ Len(middlewares) = MaxMiddlewares
  /\ Len(agents) > 0

\* the interceptor kinds that call next
CallsNext(k) == k \in {"pass", "throwAfter", "recover"}

\* C11: in a single-target send the interceptors are entered in registration
\* order, each one only if all before it called next; the agent's handle is
\* called only if every interceptor called next; and the reply of an
\* interceptor that returns without calling next is the response of the send
\* when the interceptors before it hand their inner response on.
C11_InterceptorOrder ==
  (SingleSendDone /\ lastSend.req.to \in Range(agents)) =>
     LET n == Len(middlewares)
         e == lastSend.entered IN
     /\ e = [i \in 1..Len(e) |-> i]
     /\ Len(e) <= n
     /\ n > 0 => Len(e) > 0
     /\ \A i \in 1..(Len(e) - 1) : CallsNext(middlewares[i])
     /\ (Len(e) > 0 /\ Len(e) < n) => ~CallsNext(middlewares[Len(e)])
     /\ IF \A i \in 1..n : CallsNext(middlewares[i])
        THEN lastSend.handled = <<lastSend.req.to>>
        ELSE lastSend.handled = <<>>
     /\ \A j \in 1..n :
          (/\ middlewares[j] = "block"
           /\ \A i \in 1..(j - 1) : middlewares[i] \in {"pass", "recover"})
          => /\ lastSend.how = "returned"
             /\ lastSend.msg = InterceptorReply(lastSend.req)

\* C11 witness: the second of two interceptors answered without calling next
C11_Witness ==
  /\ SingleSendDone /\ lastSend.req.to \in Range(agents)
  /\ middlewares = <<"pass", "block">>
  /\ lastSend.entered = <<1, 2>>
  /\ lastSend.handled = <<>>
  /\ lastSend.msg = InterceptorReply(lastSend.req)

\* C2: send never rejects (single target and broadcast alike), and a
\* single-target send to a registered agent whose interceptor chain or handle
\* failed returns an error message with EXECUTION_ERROR, retryable = true and
\* replyTo = the request id.
C2_FailuresBecomeErrorReplies ==
  /\ lastSend.how # "none" => lastSend.how = "returned"
  /\ (SingleSendDone /\ lastSend.req.to \in Range(agents) /\ lastSend.failure # "none") =>
        IsErrorReply(lastSend.msg, lastSend.req, EXECUTION_ERROR, TRUE)

\* C10: a broadcast (with the registry untouched while it runs) calls handle
\* exactly once on every agent registered when it was called except the
\* sender, returns, and its result holds exactly one entry per recipient.
C10_BroadcastReachesEveryRecipient ==
  (BroadcastDone /\ lastSend.bc.churn = 0) =>
     LET recipients == Range(lastSend.bc.atStart) \ {lastSend.req.from} IN
       /\ lastSend.how = "returned"
       /\ \A n \in Names : Count(lastSend.handled, n) = (IF n \in recipients THEN 1 ELSE 0)
       /\ Len(lastSend.bc.results) = Cardinality(recipients)
       /\ \A n \in recipients :
             Cardinality({i \in 1..Len(lastSend.bc.results) :
                            lastSend.bc.results[i].agent = n}) = 1

\* C30: the registered interceptors run only for a send to a single worker
\* that is registered: a broadcast (to = "*") and a send to a name that is not
\* registered enter no interceptor, so that an interceptor neither sees nor
\* blocks them (the broadcast reaches the workers, the unknown target gets the
\* reply of the bus), while a send to a registered worker enters the first
\* interceptor.
C30_InterceptorsOnlyOnSingleSends ==
  lastSend # NoSend =>
    LET single == lastSend.req.to # BROADCAST /\ lastSend.req.to \in Range(agents) IN
    /\ lastSend.entered # <<>> => single
    /\ (single /\ middlewares # <<>>) => lastSend.entered[1] = 1
    /\ lastSend.req.to = BROADCAST =>
         /\ lastSend.entered = <<>>
         /\ lastSend.how = "returned" =>
              /\ lastSend.msg.from = "bus"
              /\ Len(lastSend.msg.payload.results) = Len(lastSend.handled)
    /\ (lastSend.req.to # BROADCAST /\ ~single) =>
         /\ lastSend.entered = <<>>
         /\ lastSend.handled = <<>>
         /\ lastSend.how = "returned"
         /\ lastSend.msg.from = "bus"
         /\ lastSend.msg.payload.code = WORKER_NOT_FOUND

\* C30 witness: with a blocking interceptor registered a broadcast returned
\* after the handle of a worker was called
C30_Witness ==
  /\ lastSend # NoSend
  /\ lastSend.req.to = BROADCAST
  /\ lastSend.how = "returned"
  /\ middlewares # <<>>
  /\ middlewares[1] = "block"
  /\ lastSend.handled # <<>>
  /\ lastSend.entered = <<>>

\* ------------------------------------------------------------------------
\*  Properties of the campaign runs
\* ------------------------------------------------------------------------

HasCampaign == campaign # NoCampaign

StepsIn(statuses) == {i \in Steps(campaign) : campaign.steps[i] \in statuses}

\* steps that step i depends on, directly or through other steps
RECURSIVE TransDeps(_, _)
TransDeps(c, i) ==
  LET direct == c.dependsOn[i] \cap 1..(i - 1) IN
  direct \cup UNION {TransDeps(c, d) : d \in direct}

\* C3: a step that is running or done was marked running in a state where
\* every step named in its dependsOn had status done.
C3_DependenciesDoneAtStart ==
  HasCampaign =>
    \A i \in StepsIn({"running", "done"}) : depsAtStart[i] \subseteq {"done"}

\* C3 witness: a step with dependencies is done while another step was skipped
C3_Witness ==
  /\ HasCampaign
  /\ \E i \in StepsIn({"done"}) : campaign.dependsOn[i] # {}
  /\ StepsIn({"skipped"}) # {}

\* A Run executed by one runCampaign pass that has returned, with no pause request
OnePassRan == HasCampaign /\ calls.run = 1 /\ calls.pause = 0 /\ NoPassInFlight

\* C4: after a pass (not paused) in which steps failed, every step that depends
\* (transitively) on a failed step is skipped, every other step was executed
\* (done or failed, with its StepResult logged), and the status is completed.
C4_FailureContainment ==
  (OnePassRan /\ StepsIn({"failed"}) # {}) =>
     /\ \A i \in Steps(campaign) :
          IF TransDeps(campaign, i) \cap StepsIn({"failed"}) # {}
          THEN campaign.steps[i] = "skipped"
          ELSE /\ campaign.steps[i] \in {"done", "failed"}
               /\ \E k \in 1..Len(campaign.results) :
                     /\ campaign.results[k].stepId = i
                     /\ campaign.results[k].status = campaign.steps[i]
     /\ campaign.status = "completed"

\* C4 witness: the scenario [A, B (depends on A), C] with A failed, B skipped, C done
C4_Witness ==
  /\ OnePassRan
  /\ campaign.strategy = "scenario"
  /\ campaign.steps = <<"failed", "skipped", "done">>
  /\ campaign.status = "completed"

AllDoneOrSkipped == \A i \in Steps(campaign) : campaign.steps[i] \in {"done", "skipped"}

\* C8: over any sequence of runCampaign passes and pause requests progress
\* never decreases from one state to the next, and progress is 100 if and only
\* if every step is done or skipped.
C8_ProgressMonotoneAndExact ==
  /\ [][HasCampaign => campaign'.progress >= campaign.progress]_vars
  /\ [](HasCampaign => (campaign.progress = 100 <=> AllDoneOrSkipped))

Settled ==
  /\ campaign.status \in {"completed", "failed"}
  /\ StepsIn({"pending", "running"}) = {}

\* runCampaign has been called for the Run
Started == HasCampaign /\ calls.run > 0

\* a runCampaign pass returns in this step
PassEnds == \E p \in Passes : passes[p].pc # "idle" /\ passes'[p].pc = "idle"

\* the status a pass leaves behind: completed when every step is done or
\* skipped, and also when some step failed and none is pending
PassEndRule ==
  PassEnds =>
    LET after == campaign'.steps IN
    (\/ \A i \in Steps(campaign) : after[i] \in {"done", "skipped"}
     \/ /\ \E i \in Steps(campaign) : after[i] = "failed"
        /\ \A i \in Steps(campaign) : after[i] # "pending")
    => campaign'.status = "completed"

StatusChanges ==
  {<<"planning", "active">>, <<"active", "paused">>, <<"paused", "active">>,
   <<"active", "completed">>, <<"active", "failed">>}

\* C12: every status change of a Run is planning -> active, active -> paused,
\* paused -> active, active -> completed or active -> failed; in particular a
\* completed or failed Run never changes status again.
C12_StatusStateMachine ==
  [][(HasCampaign /\ campaign'.status # campaign.status)
       => <<campaign.status, campaign'.status>> \in StatusChanges]_vars

Over == {"done", "failed", "skipped"}

\* a pass finds the Run paused at the top of an iteration and stops
PassStopsOnPause ==
  \E p \in Passes :
    /\ passes[p].pc = "saving" /\ passes'[p].pc = "idle"
    /\ passes[p].i < Len(campaign.steps)
    /\ campaign.status = "paused"

\* C13: a pass that finds the Run paused stops and leaves the Run paused and
\* the steps as they are, and no step that reached done, failed or skipped is
\* sent to the bus again or changes status when runCampaign is called again.
C13_ResumeFromSamePoint ==
  /\ [][PassStopsOnPause => campaign' = campaign]_vars
  /\ [][HasCampaign =>
          \A i \in Steps(campaign) :
            campaign.steps[i] \in Over =>
               /\ campaign'.steps[i] = campaign.steps[i]
               /\ \A p \in Passes : passes'[p] # [pc |-> "sending", i |-> i]]_vars

\* C14: a pending step whose dependencies are not all done becomes skipped
\* without being sent to the bus, and a skipped step stays skipped for the
\* rest of the Run.
C14_SkippedIsTerminal ==
  [][HasCampaign =>
       \A i \in Steps(campaign) :
         /\ (campaign.steps[i] = "pending" /\ campaign'.steps[i] = "skipped") =>
               /\ ~dependenciesMet(campaign, i)
               /\ \A p \in Passes : passes'[p] # [pc |-> "sending", i |-> i]
         /\ campaign.steps[i] = "skipped" => campaign'.steps[i] = "skipped"]_vars

\* the bus calls of the Run that are in flight
InFlight == {p \in Passes : passes[p].pc = "sending"}

\* number of times step i was sent to the bus: the calls that returned (one
\* StepResult each) and the calls in flight
TimesSent(i) ==
  Cardinality({k \in 1..Len(campaign.results) : campaign.results[k].stepId = i})
    + Cardinality({p \in InFlight : passes[p].i = i})

\* C15: under every interleaving of run and pause requests at most one step
\* of the Run has a bus call in flight, a step begins only when every step
\* before it is done, failed or skipped, and each step is sent at most once.
C15_StrictlySequential ==
  HasCampaign =>
    /\ Cardinality(InFlight) <= 1
    /\ Cardinality(StepsIn({"running"})) <= 1
    /\ \A p \in InFlight : \A j \in 1..(passes[p].i - 1) : campaign.steps[j] \in Over
    /\ \A i \in Steps(campaign) : TimesSent(i) <= 1

\* the strategies strategies/index.ts registers
RegisteredStrategies == {"product-launch", "content-marketing", "social-blitz"}

\* the campaign was created from a registered strategy template
FromRegistered == HasCampaign /\ campaign.strategy \in RegisteredStrategies

\* C25: a Run created from a registered strategy template (product-launch,
\* content-marketing, social-blitz) has one step per template step, step_1 to
\* step_n in declaration order, all pending at creation, and every id in a
\* step's dependsOn names a step declared strictly earlier in the same Run
\* (so no dependency dangles and the dependency relation has no cycle).
C25_TemplateDependenciesPointBack ==
  /\ [](FromRegistered =>
         /\ DOMAIN campaign.steps = 1..Len(getStrategy(campaign.strategy))
         /\ DOMAIN campaign.dependsOn = DOMAIN campaign.steps
         /\ \A i \in Steps(campaign) :
              /\ campaign.dependsOn[i] = getStrategy(campaign.strategy)[i].dependsOn
              /\ campaign.dependsOn[i] \subseteq 1..(i - 1))
  /\ [][(campaign = NoCampaign /\ campaign' # NoCampaign
           /\ campaign'.strategy \in RegisteredStrategies)
          => \A i \in Steps(campaign') : campaign'.steps[i] = "pending"]_vars

\* C25 witness: a product-launch Run was just created, its eight steps
\* pending and its last step waiting for two earlier ones
C25_Witness ==
  /\ FromRegistered
  /\ campaign.strategy = "product-launch"
  /\ campaign.status = "planning"
  /\ Len(campaign.steps) = 8
  /\ StepsIn({"pending"}) = Steps(campaign)
  /\ campaign.dependsOn[8] = {6, 7}

\* C26: after every step a pass processed, executed or skipped, and when the
\* pass ends, Run.progress is 100 * (number of steps done or skipped) / total,
\* rounded, for the statuses the steps have then; steps skipped at the end of
\* the pass are counted too.
C26_ProgressCountsSkipped ==
  Started =>
    campaign.progress =
      Round(100 * Cardinality(StepsIn({"done", "skipped"})), Len(campaign.steps))

\* the steps with one of the statuses, in declaration order
RECURSIVE InOrder(_, _)
InOrder(statuses, n) ==
  IF n = 0 THEN <<>>
  ELSE IF campaign.steps[n] \in statuses THEN Append(InOrder(statuses, n - 1), n)
  ELSE InOrder(statuses, n - 1)

\* the first pass of the Run, with no pause request so far
FirstPass == HasCampaign /\ calls.run = 1 /\ calls.pause = 0

\* the reply to the step a pass waits for arrives: one StepResult more, for
\* that step, with the status and the content the reply asks for
Logged(i, status, content) ==
  /\ campaign'.steps[i] = status
  /\ Len(campaign'.results) = Len(campaign.results) + 1
  /\ SubSeq(campaign'.results, 1, Len(campaign.results)) = campaign.results
  /\ campaign'.results[Len(campaign'.results)] =
       [stepId |-> i, status |-> status, output |-> content]

\* C27: each step execution appends exactly one StepResult to the result log
\* of the Run, with status done and the stored output on a result reply, with
\* status failed and the error message on an error reply; a skipped step
\* appends none; so after a single uninterrupted pass the log has exactly one
\* entry per done or failed step, in execution order, and a failed step never
\* stops the pass: the pass ends with no step left pending.
C27_ResultLogBookkeeping ==
  /\ [][\A p \in Passes :
          /\ \A payload \in ResultPayloads :
               busReturned(p, "result", payload)
                 => Logged(passes[p].i, "done", campaign'.output[passes[p].i])
          /\ \A payload \in ErrorPayloads :
               busReturned(p, "error", payload)
                 => Logged(passes[p].i, "failed",
                           [error |-> IF payload.message = ""
                                      THEN "Agent returned error" ELSE payload.message])]_vars
  /\ [][(HasCampaign /\ campaign'.results # campaign.results)
          => \E p \in Passes : passes[p].pc = "sending" /\ passes'[p].pc = "saving"]_vars
  /\ [](FirstPass =>
         /\ [k \in 1..Len(campaign.results) |-> campaign.results[k].stepId]
              = InOrder({"done", "failed"}, Len(campaign.steps))
         /\ NoPassInFlight => StepsIn({"pending", "running"}) = {})

\* C27 witness: the first pass of a product-launch Run ended after step_1
\* failed and step_2, executed after it, was done; the six steps skipped
\* left no entry in the log
C27_Witness ==
  /\ FirstPass
  /\ NoPassInFlight
  /\ campaign.strategy = "product-launch"
  /\ campaign.steps[1] = "failed"
  /\ campaign.steps[2] = "done"
  /\ StepsIn({"skipped"}) = 3..8
  /\ Len(campaign.results) = 2
  /\ campaign.results[1].output = [error |-> "Agent returned error"]
  /\ campaign.results[2].output = campaign.output[2]

\* the steps whose task message has been sent
Sent == {i \in Steps(campaign) : sentInput[i] # EmptyInput}

\* the keys of the input sent for step i that hold a value read from an output
Projected(i) == {k \in DOMAIN sentInput[i] : sentInput[i][k].from # 0}

\* C28: the input sent for a step is its static input plus values read only
\* from the outputs of the steps named in its own dependsOn, never from
\* another step, and building it changes neither the stored input of a step
\* nor the stored output of any step.
C28_EnrichmentFromDependenciesOnly ==
  /\ [](HasCampaign =>
         \A i \in Sent :
           /\ \A k \in DOMAIN campaign.input[i] :
                k \in DOMAIN sentInput[i] /\ sentInput[i][k] = campaign.input[i][k]
           /\ \A k \in Projected(i) : sentInput[i][k].from \in campaign.dependsOn[i])
  /\ [][(HasCampaign /\ sentInput' # sentInput)
          => /\ campaign'.input = campaign.input
             /\ campaign'.output = campaign.output]_vars

\* C28 witness: the fourth step of a product-launch Run, a writer that
\* depends on step_1 only, was sent the findings of step_1 as research while
\* step_2, a researcher as well, had stored an output
C28_Witness ==
  /\ HasCampaign
  /\ campaign.strategy = "product-launch"
  /\ campaign.output[2] # NoOutput
  /\ 4 \in Sent
  /\ Projected(4) = {"research"}
  /\ sentInput[4]["research"] = [from |-> 1, part |-> "findings"]
  /\ sentInput[4]["topic"] = Static("topic")

\* ------------------------------------------------------------------------
\*  Properties of the TenantStore
\* ------------------------------------------------------------------------

\* the last call was an admission check that reached the limits: the tenant
\* exists and is active
LimitsEvaluated == lastTrack # NoTrack /\ lastTrack.found /\ lastTrack.active

\* C5 as stated: for a tenant whose plan has requestsPerDay = N > 0 all day,
\* exactly the first N admission checks of a UTC day are allowed (the first
\* check of a later day among them) and the others are denied with a quota
\* reason.
C5_DailyQuota ==
  (LimitsEvaluated /\ lastTrack.steady /\ lastTrack.limits.requestsPerDay > 0) =>
     /\ lastTrack.allowed <=> lastTrack.check <= lastTrack.limits.requestsPerDay
     /\ ~lastTrack.allowed => lastTrack.reason \in QUOTA_EXCEEDED

\* C5 amended: with requestsPerDay = N > 0 an admission check of an active
\* tenant is allowed exactly when fewer than N checks were allowed on this UTC
\* day and the monthly limit M is not met (M > 0 and M checks allowed in this UTC
\* month); it is denied with the daily reason when N were allowed; the daily
\* counter counts the checks allowed on the current day, so the first check of
\* a later day starts from 0.
C5_DailyQuotaWithinMonthly ==
  (LimitsEvaluated /\ lastTrack.limits.requestsPerDay > 0) =>
     LET N == lastTrack.limits.requestsPerDay
         M == lastTrack.limits.requestsPerMonth
         monthlyMet == M > 0 /\ lastTrack.allowedMonth >= M IN
     /\ lastTrack.allowed <=> (lastTrack.allowedToday < N /\ ~monthlyMet)
     /\ ~lastTrack.allowed => lastTrack.reason \in QUOTA_EXCEEDED
     /\ lastTrack.allowedToday >= N => lastTrack.reason = DailyLimitReached
     /\ lastTrack.requests = lastTrack.allowedToday + (IF lastTrack.allowed THEN 1 ELSE 0)

\* C5 witness: on a later day of the month, after the daily counter was reset,
\* check N + 1 of the day is denied with the daily reason
C5_Witness ==
  /\ LimitsEvaluated /\ lastTrack.steady
  /\ lastTrack.limits.requestsPerDay > 0
  /\ lastTrack.check = lastTrack.limits.requestsPerDay + 1
  /\ ~lastTrack.allowed /\ lastTrack.reason = DailyLimitReached
  /\ clock[2] > 1
  /\ tenants[lastTrack.tenantId].usage.month.requests > lastTrack.limits.requestsPerDay

\* C16: for every limit L >= 0 of requestsPerDay (resp. requestsPerMonth) an
\* admission check is denied whenever the current daily (resp. monthly)
\* counter is >= L, so a limit of 0 denies every check; a limit of -1 never
\* denies.
C16_OnlyMinusOneIsUnlimited ==
  LimitsEvaluated =>
     LET perDay == lastTrack.limits.requestsPerDay
         perMonth == lastTrack.limits.requestsPerMonth IN
     /\ (perDay >= 0 /\ lastTrack.today >= perDay) => ~lastTrack.allowed
     /\ (perMonth >= 0 /\ lastTrack.month >= perMonth) => ~lastTrack.allowed
     /\ perDay = -1 => lastTrack.reason # DailyLimitReached
     /\ perMonth = -1 => lastTrack.reason # MonthlyLimitReached

\* the tenant id is unknown, deleted, or its tenant has active = false
FailsClosed(id) == ~has(id) \/ ~tenants[id].active

\* the step is a trackUsage() call / a canUseAgent() call
TrackStep == tracks' # tracks
CanUseStep == lastQuery' # lastQuery /\ lastQuery'.op = "canUseAgent"

\* C17: an admission check and a worker-permission check for a tenant id that
\* is unknown, deleted or has active = false is denied, and the call changes
\* no tenant's usage counters or memory.
C17_AdmissionFailsClosed ==
  [][/\ (TrackStep /\ FailsClosed(lastTrack'.tenantId)) =>
          (~lastTrack'.allowed /\ tenants' = tenants)
     /\ (CanUseStep /\ FailsClosed(lastQuery'.tenantId)) =>
          (~lastQuery'.result.allowed /\ tenants' = tenants)]_vars

SteadyDailyLimit(t) ==
  /\ has(t) /\ admitted[t].steady
  /\ tenants[t].plan.limits.requestsPerDay > 0
  /\ tenants[t].usage.today.date = Today

\* the counters of tenant t after the lazy reset of an outdated day / month
DayCount(t) == IF tenants[t].usage.today.date = Today THEN tenants[t].usage.today.requests ELSE 0
MonthCount(t) == IF tenants[t].usage.month.month = Month THEN tenants[t].usage.month.requests ELSE 0

\* C19: the limit check and the increment of an admission check are atomic
\* with respect to every other admission check.  For a tenant with an
\* unchanged plan and a daily limit L > 0, whatever the interleaving of
\* admission checks (allowed ones suspended while the tenant is written), at
\* most L checks are allowed per UTC day and today.requests <= L in every
\* state; each allowed check adds exactly 1 to today.requests, month.requests
\* and allTime.requests of its tenant.
C19_AtomicCheckAndIncrement ==
  /\ [](\A t \in TenantIds : SteadyDailyLimit(t) =>
            /\ tenants[t].usage.today.requests <= tenants[t].plan.limits.requestsPerDay
            /\ admitted[t].allowed <= tenants[t].plan.limits.requestsPerDay)
  /\ [][(TrackStep /\ lastTrack'.allowed) =>
          LET t == lastTrack'.tenantId IN
          /\ tenants'[t].usage.today.requests = DayCount(t) + 1
          /\ tenants'[t].usage.month.requests = MonthCount(t) + 1
          /\ tenants'[t].usage.allTime.requests = tenants[t].usage.allTime.requests + 1
          /\ \A o \in TenantIds \ {t} : tenants'[o] = tenants[o]]_vars

\* C19 witness: with two allowed checks of the day still suspended in
\* saveTenant, a third check of the same tenant found the daily limit met
C19_Witness ==
  /\ persisting = Cardinality(Checkers)
  /\ LimitsEvaluated /\ lastTrack.steady
  /\ ~lastTrack.allowed /\ lastTrack.reason = DailyLimitReached
  /\ SteadyDailyLimit(lastTrack.tenantId)
  /\ admitted[lastTrack.tenantId].allowed = lastTrack.limits.requestsPerDay
  /\ tenants[lastTrack.tenantId].usage.today.requests = lastTrack.limits.requestsPerDay

\* C20: the usage counters (today, month, allTime) of a tenant are changed
\* only by the admission check: every other operation of the store (update
\* with any partial tenant, updateMemory, getTenantContext, canUseAgent,
\* getById, getByApiKey, exportTenantData) leaves the usage counters of every
\* tenant unchanged.
C20_OnlyAdmissionChangesUsage ==
  [][~TrackStep =>
       \A t \in TenantIds : (has(t) /\ tenants'[t] # Deleted) =>
                                tenants'[t].usage = tenants[t].usage]_vars

\* the step is an operation of the store invoked with tenant id T
OperationOn(T) ==
  \/ trackUsage(T, FALSE)
  \/ \E updates \in MemoryUpdates : updateMemory(T, updates)
  \/ update(T, "memory", EmptyMemory)
  \/ deleteTenant(T)

\* C21: an operation invoked with tenant id T (trackUsage, updateMemory,
\* update, deleteTenant) leaves the usage counters and the memory of every
\* other tenant unchanged, and the text of getTenantContext(T) depends on T's
\* own memory only: a rendering of T with the memory T had at the rendering
\* before gives the same text, whatever the memory of the other tenants is.
C21_TenantIsolation ==
  /\ [][\A T \in TenantIds : OperationOn(T) =>
            \A o \in TenantIds \ {T} : tenants'[o] = tenants[o]]_vars
  /\ [][(rendered'.tenantId = rendered.tenantId /\ rendered'.tenantId # "none"
          /\ rendered'.memory = rendered.memory) =>
            rendered'.text = rendered.text]_vars

\* C21 witness: a tenant was rendered twice with the same memory and a text
\* that is not empty, while the memory of another tenant, which has counted
\* requests, was written in between
C21_Witness ==
  /\ rendered # NoContext /\ rendered.again /\ Len(rendered.text) > 0
  /\ \E o \in TenantIds \ {rendered.tenantId} :
        /\ has(o) /\ tenants[o].memory # EmptyMemory
        /\ tenants[o].usage.allTime.requests > 0

\* a counter of requests and the period it counts, before and after a step:
\* the counter is as it was, or it is 0 for a new period
KeptOrReset(before, after, period) ==
  \/ after = before
  \/ after.requests = 0 /\ after[period] # before[period]

\* C29: an admission check that is denied (tenant unknown, account inactive,
\* daily limit met or monthly limit met) increments no request counter:
\* today.requests, month.requests and allTime.requests of every tenant are as
\* before the call, but for the reset of a counter whose day or month is over.
C29_DeniedCheckCountsNothing ==
  [][(TrackStep /\ ~lastTrack'.allowed) =>
       \A t \in TenantIds :
         /\ has(t) <=> tenants'[t] # NoTenant
         /\ has(t) =>
              /\ KeptOrReset(tenants[t].usage.today, tenants'[t].usage.today, "date")
              /\ KeptOrReset(tenants[t].usage.month, tenants'[t].usage.month, "month")
              /\ tenants'[t].usage.allTime = tenants[t].usage.allTime
              /\ t # lastTrack'.tenantId => tenants'[t] = tenants[t]]_vars

\* C29 witness: the first check of a day was denied by the monthly limit; the
\* counter of the day was reset to 0 and the three requests of the month and
\* of all time stayed three
C29_Witness ==
  /\ lastTrack # NoTrack
  /\ lastTrack.found /\ lastTrack.active /\ ~lastTrack.allowed
  /\ lastTrack.reason = MonthlyLimitReached
  /\ tenants[lastTrack.tenantId].usage.today.requests = 0
  /\ tenants[lastTrack.tenantId].usage.month.requests = 3
  /\ tenants[lastTrack.tenantId].usage.allTime.requests = 3

\* ------------------------------------------------------------------------
\*  Properties of the ResponseCache
\* ------------------------------------------------------------------------

Got == lastOp.op = "get"

\* C6: get returns the output stored under the same (tenant, worker, action,
\* input) while now < expiresAt, and a miss for every now >= expiresAt, now =
\* expiresAt included, and when nothing is stored.
C6_RoundTripAndExpiry ==
  Got =>
    IF lastOp.found /\ lastOp.at < lastOp.expiresAt
    THEN lastOp.output = lastOp.stored
    ELSE lastOp.output = Miss

\* the entries of tenants other than the one the last operation was for
OthersEntries(c, tenantId) == {c[i] : i \in {j \in 1..Len(c) : c[j].tenantId # tenantId}}

NoCrossTenantRead == (Got /\ lastOp.output # Miss) => lastOp.output.for = lastOp.tenantId

\* a set() call is this step
SetStep == lastOp'.op = "set"

C22_ZeroTTLAlwaysMisses ==
  (Got /\ getTTL(lastOp.key[3]) = 0) => lastOp.output = Miss

\* the keys of the entries of c
Keys(c) == {c[i].key : i \in 1..Len(c)}

\* C23: the number of entries never exceeds maxEntries; a set removes another
\* entry only when inserting would exceed the capacity (the key is new and
\* the cache is full), and then exactly one, with the smallest createdAt,
\* whatever its hit count.
C23_CapacityOldestFirst ==
  /\ [](Len(cache) <= maxEntries)
  /\ [][SetStep =>
          LET removed == (Keys(cache) \ Keys(cache')) \ {lastOp'.key}
              overflow == lastOp'.key \notin Keys(cache) /\ Len(cache) >= maxEntries IN
          IF overflow
          THEN \E i \in 1..Len(cache) :
                 /\ removed = {cache[i].key}
                 /\ \A j \in 1..Len(cache) : cache[i].createdAt <= cache[j].createdAt
          ELSE removed = {}]_vars

\* the entries of c, and those of them a predicate on (tenant, worker) selects
Entries(c) == {c[i] : i \in 1..Len(c)}
EntriesOf(c, tenantId, workers) ==
  {e \in Entries(c) : e.tenantId = tenantId /\ e.agent \in workers}

\* C24: invalidateTenant(T) removes exactly the entries stored under T and
\* returns their number; invalidateAgent(T, W) removes exactly the entries of
\* T for worker W; every other entry stays, unchanged and in its place; and
\* no step empties a cache that holds entries of two tenants.
C24_ScopedInvalidation ==
  [][/\ lastOp'.op = "invalidateTenant" =>
          LET gone == EntriesOf(cache, lastOp'.tenantId, CacheAgents) IN
          /\ Entries(cache') = Entries(cache) \ gone
          /\ lastOp'.count = Cardinality(gone)
          /\ Len(cache') = Len(cache) - Cardinality(gone)
     /\ lastOp'.op = "invalidateAgent" =>
          LET gone == EntriesOf(cache, lastOp'.tenantId, {lastOp'.agent}) IN
          /\ Entries(cache') = Entries(cache) \ gone
          /\ lastOp'.count = Cardinality(gone)
          /\ Len(cache') = Len(cache) - Cardinality(gone)
     /\ Cardinality({e.tenantId : e \in Entries(cache)}) > 1 => cache' # <<>>]_vars

\* C24 witness: invalidateAgent removed the entry of one worker of a tenant
\* and the entry of another worker of the same tenant is still there
C24_Witness ==
  /\ lastOp.op = "invalidateAgent" /\ lastOp.count = 1
  /\ \E e \in Entries(cache) : e.tenantId = lastOp.tenantId /\ e.agent # lastOp.agent

====
